---- MODULE Spec2Model ----
(***************************************************************************)
(* Model of the two rip.fun monitors:                                      *)
(*   rip_marketplace_monitor.py  (listing path: SeenSet persisted in a     *)
(*                                JSON file, one check_marketplace a poll) *)
(*   rip_stock_notifier.py       (stock path: in-memory _previous_stock)   *)
(* Each script is its own process; `script` records which one is running.  *)
(* Spec is either script's loop. The other specifications run parts of    *)
(* the marketplace monitor:                                                *)
(*   SpecCycle     one check_marketplace call, thresholds and prices varied*)
(*   SpecDelivery  the loop with a webhook that may fail any POST          *)
(*   SpecStore     load_seen_listings / save_seen_listings call sequences  *)
(*   SpecDeal      calculate_deal_percentage called directly               *)
(***************************************************************************)
EXTENDS Integers, Sequences, FiniteSets, TLC

\* ------------------------------------------------------------------ bounds
MaxTime  == 2      \* wall-clock readings are 0..MaxTime
MaxPage  == 2      \* card ids matched in one fetched marketplace page
MaxDeliveryTime == 1  \* wall-clock readings of SpecDelivery are 0..MaxDeliveryTime
MaxCount == 7      \* packs of one set found in one store page

\* ------------------------------------------------------- program constants
LISTING_CAP    == 5      \* card_ids[:5]
RESTOCK_MARGIN == 5      \* count > previous_count + 5

Cards    == {"sv1-a", "sv2-b"}          \* catalog card ids
Prices   == {0, 100, 300}               \* listed price, in cents
SetNames == {"SetX", "SetY"}            \* store set names
MinPriceChoices == {0, 100}             \* values MIN_LISTING_PRICE is set to
MaxPriceChoices == {0, 200}             \* values MAX_LISTING_PRICE is set to
DealChoices     == {0, 10, 20}           \* values DEAL_THRESHOLD_PERCENT is set to

VARIABLES
  script,          \* which program runs: "marketplace", "stock" or "store"
  pc,              \* position in main's loop / in the store sequence
  now,             \* the wall clock, as time.time() / datetime.now() read it
  \* --- marketplace monitor
  file,            \* content of SEEN_LISTINGS_FILE
  MIN_LISTING_PRICE, MAX_LISTING_PRICE, DEAL_THRESHOLD_PERCENT,
  transport,       \* the webhook endpoint: "up" accepts every POST, "faulty"
                   \* may fail any of them
  fileBefore,      \* the file when the last cycle started
  loaded,          \* what load_seen_listings did in the last cycle
  fetched,         \* what fetch_marketplace_data returned in the last cycle
  dispatched,      \* listings handed to send_discord_notification, in order
  posted,          \* webhook POSTs of the last cycle, in order
  delivered,       \* for each POST, whether the transport accepted it
  events,          \* the cycle's dispatches, set additions and save, in order
  updated_seen,    \* the set handed to save_seen_listings in the last cycle
  saveOutcome,     \* what save_seen_listings did in the last cycle
  saveAttempts,    \* number of write attempts of the last cycle
  prevKeys,        \* identity keys of the batch of the cycle before the last
  prevSave,        \* saveOutcome of the cycle before the last
  prevFailed,      \* keys whose POST failed in the cycle before the last
  \* --- stock notifier
  previous_stock,  \* _previous_stock
  stockBefore,     \* _previous_stock when the last cycle started
  lastPoll,        \* what fetch_available_packs_from_store returned
  stockNotes,      \* notifications of the last cycle, in order
  gone,            \* sets once in the ledger that the last successful poll
                   \* before this cycle did not list
  steady,          \* for each set in stock at the last applied poll: its
                   \* count at that poll (last) and its count at the start
                   \* of its run of polls that each grew by at most 5 (first)
  \* --- store sequences (SpecStore)
  argSet,          \* the set S / the key k the sequence is run with
  argKey,
  res1, res2,      \* results of the first and second load of the sequence
  faulted,         \* an I/O fault was injected in the sequence
  \* --- calculate_deal_percentage called directly (SpecDeal)
  argListed,       \* listed_price
  argMarket,       \* market_price
  dealResult       \* the value returned

thresholds == <<MIN_LISTING_PRICE, MAX_LISTING_PRICE, DEAL_THRESHOLD_PERCENT>>
marketObs  == <<fileBefore, loaded, fetched, dispatched, posted, delivered,
                events, updated_seen, saveOutcome, saveAttempts>>
marketHist == <<prevKeys, prevSave, prevFailed>>
settings   == <<thresholds, transport>>
marketVars == <<file, settings, marketObs, marketHist>>
stockVars  == <<previous_stock, stockBefore, lastPoll, stockNotes, gone, steady>>
storeVars  == <<argSet, argKey, res1, res2, faulted>>
dealVars   == <<argListed, argMarket, dealResult>>
vars == <<script, pc, now, marketVars, stockVars, storeVars, dealVars>>

\* ------------------------------------------------------------ small helpers
Range(s) == {s[i] : i \in 1..Len(s)}

Min(a, b) == IF a < b THEN a ELSE b

SeqsUpTo(S, n) == UNION {[1..m -> S] : m \in 0..n}

Perms(S) == {p \in [1..Cardinality(S) -> S] : Range(p) = S}

Times == 0..MaxTime

\* ======================================================================
\*  Stock notifier (rip_stock_notifier.py)
\* ======================================================================

\* pack_counts: set name -> number of packs, only for sets with a match
Tallies == UNION {[D -> 1..MaxCount] : D \in SUBSET SetNames}

EmptyTally == [s \in {} |-> 0]

\* fetch_available_packs_from_store: {} on a request or parse failure, else
\* the tally of the page (which is {} too when no pack matched)
fetch_available_packs_from_store(outcome, tally) ==
  IF outcome = "fail" THEN EmptyTally ELSE tally

\* _previous_stock.get(set_name, 0)
PreviousCount(ledger, set_name) ==
  IF set_name \in DOMAIN ledger THEN ledger[set_name] ELSE 0

\* (mutant) the restock test written with >= instead of >
ClassifyMutGe(previous_count, count) ==
  IF previous_count = 0 THEN "first-seen"
  ELSE IF count >= previous_count + RESTOCK_MARGIN THEN "restock"
  ELSE "unchanged"

\* the if / elif / else of check_and_notify's loop body
Classify(previous_count, count) ==
  IF previous_count = 0 THEN "first-seen"
  ELSE IF count > previous_count + RESTOCK_MARGIN THEN "restock"
  ELSE "unchanged"

\* the loop of check_and_notify over available_packs.items(), in `order`:
\* the messages handed to send_email / send_discord_notification
RECURSIVE NotifyLoop(_, _, _)
NotifyLoop(ledger, available_packs, order) ==
  IF order = <<>> THEN <<>>
  ELSE LET set_name == Head(order)
           count == available_packs[set_name]
           previous_count == PreviousCount(ledger, set_name)
           kind == Classify(previous_count, count)
           rest == NotifyLoop(ledger, available_packs, Tail(order))
       IN IF kind = "unchanged" THEN rest
          ELSE <<[set |-> set_name, kind |-> kind, count |-> count,
                  was |-> previous_count]>> \o rest

\* check_and_notify as a function of the ledger and the fetch result:
\* the notifications produced and the ledger it leaves
\* (mutant) the ledger entry of a set is updated only when it is notified
CheckAndNotifyMutKeepLedger(ledger, available_packs, order) ==
  IF available_packs = EmptyTally
  THEN [notes |-> <<>>, ledger |-> ledger]
  ELSE [notes  |-> NotifyLoop(ledger, available_packs, order),
        ledger |-> [s \in DOMAIN available_packs |->
                      IF Classify(PreviousCount(ledger, s), available_packs[s])
                           = "unchanged"
                      THEN ledger[s] ELSE available_packs[s]]]

\* (mutant) the ledger keeps the lowest count seen for a set
CheckAndNotifyMutLowest(ledger, available_packs, order) ==
  IF available_packs = EmptyTally
  THEN [notes |-> <<>>, ledger |-> ledger]
  ELSE [notes  |-> NotifyLoop(ledger, available_packs, order),
        ledger |-> [s \in DOMAIN available_packs |->
                      IF s \in DOMAIN ledger
                      THEN Min(ledger[s], available_packs[s])
                      ELSE available_packs[s]]]

check_and_notify(ledger, available_packs, order) ==
  IF available_packs = EmptyTally
  THEN [notes |-> <<>>, ledger |-> ledger]
  ELSE [notes  |-> NotifyLoop(ledger, available_packs, order),
        ledger |-> available_packs]

\* ======================================================================
\*  Marketplace monitor (rip_marketplace_monitor.py)
\* ======================================================================

\* listing_id = f"{card_id}_{timestamp}": the pair of its two parts
ListingId(card_id, timestamp) == <<card_id, timestamp>>

Keys == Cards \X Times

\* ------------------------------------------------------------ State Store
\* The content of SEEN_LISTINGS_FILE, by what json.load makes of it:
\*   "missing"    no file
\*   "doc"        {"seen_listings": [...], "last_updated": ...}
\*   "notjson"    bytes that are not JSON
\*   "partial"    what a write that failed half way left (not JSON either)
\*   "nonobject"  valid JSON whose top level is a list, number, string, null
\*   "badfield"   an object whose seen_listings is a number or null
\*   "nokey"      an object without a seen_listings field
FileOf(kind, list, updated) == [kind |-> kind, list |-> list, updated |-> updated]

Missing == FileOf("missing", <<>>, 0)

Malformed(kind) == FileOf(kind, <<>>, 0)

MalformedKinds == {"notjson", "partial", "nonobject", "badfield", "nokey"}

\* list(seen_listings): the elements of the set, each once, in some order
RECURSIVE SetToList(_)
SetToList(S) ==
  IF S = {} THEN <<>>
  ELSE LET x == CHOOSE y \in S : TRUE IN <<x>> \o SetToList(S \ {x})

\* (mutant) the list is read from the wrong field: always the empty set
LoadMutWrongField(f, rd) ==
  [status |-> IF f.kind = "nonobject" /\ rd = "ok" THEN "raised" ELSE "ok",
   set    |-> {},
   warned |-> f.kind # "missing" /\ (rd = "ioerror" \/ f.kind \in {"notjson", "partial"})]

\* load_seen_listings: `rd` is what open()/read() does ("ok" or "ioerror").
\* status "raised": an exception left the function (AttributeError on
\* data.get, TypeError on set(...)): only JSONDecodeError and IOError are caught.
load_seen_listings(f, rd) ==
  IF f.kind = "missing" THEN [status |-> "ok", set |-> {}, warned |-> FALSE]
  ELSE IF rd = "ioerror" THEN [status |-> "ok", set |-> {}, warned |-> TRUE]
  ELSE IF f.kind \in {"notjson", "partial"}
       THEN [status |-> "ok", set |-> {}, warned |-> TRUE]
  ELSE IF f.kind \in {"nonobject", "badfield"}
       THEN [status |-> "raised", set |-> {}, warned |-> FALSE]
  ELSE IF f.kind = "nokey" THEN [status |-> "ok", set |-> {}, warned |-> FALSE]
  ELSE [status |-> "ok", set |-> Range(f.list), warned |-> FALSE]

\* (mutant) the new list is merged into the stored one instead of replacing it
SaveMutMerge(f, seen_listings, t, wr) ==
  IF wr = "ok"
  THEN FileOf("doc", SetToList(seen_listings \cup Range(f.list)), t)
  ELSE IF wr = "openfail" THEN f
  ELSE Malformed("partial")

\* save_seen_listings: `wr` is what the write does:
\*   "ok"         open(..., 'w') and json.dump succeed
\*   "openfail"   open raises IOError: nothing was touched
\*   "writefail"  open truncated the file, then the write raised IOError
\*   "interrupt"  open truncated the file, then KeyboardInterrupt was raised
\*                in json.dump (it is not an IOError and leaves the function)
save_seen_listings(f, seen_listings, t, wr) ==
  IF wr = "ok" THEN FileOf("doc", SetToList(seen_listings), t)
  ELSE IF wr = "openfail" THEN f
  ELSE Malformed("partial")

SaveOutcomes == {"ok", "openfail", "writefail"}

\* ------------------------------------------------------------------ fetch
\* A fetched page, as the regexes see it: the card ids matched, in page
\* order, each with the price matched at the same index (0 when none is).
PagesOver(prices) == SeqsUpTo([card_id : Cards, price : prices], MaxPage)

\* The price is read by the three filters only; with every threshold 0 (the
\* values the source sets) no branch depends on it and one price stands for all.
PricesRead(min_price, max_price, deal_threshold) ==
  IF min_price = 0 /\ max_price = 0 /\ deal_threshold = 0 THEN {300} ELSE Prices

\* processed_listing of fetch_marketplace_data; prices are in cents and
\* market_price = listed_price * 1.2
ProcessedListing(entry, t) ==
  [card_id      |-> entry.card_id,
   listed_price |-> entry.price,
   market_price |-> (entry.price * 12) \div 10,
   timestamp    |-> t]

\* fetch_marketplace_data: None ("fail") on a request error, else the
\* listings of the first LISTING_CAP card ids of the page
fetch_marketplace_data(outcome, page, t) ==
  IF outcome = "fail" THEN [status |-> "fail", listings |-> <<>>]
  ELSE [status   |-> "ok",
        listings |-> [i \in 1..Min(Len(page), LISTING_CAP) |->
                        ProcessedListing(page[i], t)]]

\* ---------------------------------------------------------------- filters
\* (mutant) the difference is taken relative to the listed price
CalcDealMutListedBase(listed_price, market_price) ==
  IF market_price <= 0 THEN [num |-> 0, den |-> 1]
  ELSE [num |-> (listed_price - market_price) * 100, den |-> listed_price]

\* calculate_deal_percentage, as the fraction num/den (den > 0)
calculate_deal_percentage(listed_price, market_price) ==
  IF market_price <= 0 THEN [num |-> 0, den |-> 1]
  ELSE [num |-> (listed_price - market_price) * 100, den |-> market_price]

\* (mutant) the deal test compares with the threshold, not with its negation
ReachesPostMutDealSign(listing, min_price, max_price, deal_threshold) ==
  LET deal_percent == calculate_deal_percentage(listing.listed_price,
                                                listing.market_price)
  IN /\ ~(deal_threshold > 0
          /\ deal_percent.num > deal_threshold * deal_percent.den)
     /\ ~(min_price > 0 /\ listing.listed_price < min_price)
     /\ ~(max_price > 0 /\ listing.listed_price > max_price)

\* send_discord_notification up to the POST: TRUE when it reaches
\* requests.post, FALSE when one of the three filters returns first
ReachesPost(listing, min_price, max_price, deal_threshold) ==
  LET deal_percent == calculate_deal_percentage(listing.listed_price,
                                                listing.market_price)
  IN /\ ~(deal_threshold > 0
          /\ deal_percent.num > (0 - deal_threshold) * deal_percent.den)
     /\ ~(min_price > 0 /\ listing.listed_price < min_price)
     /\ ~(max_price > 0 /\ listing.listed_price > max_price)

KeyOf(listing) == ListingId(listing.card_id, listing.timestamp)

KeysOf(listings) == {KeyOf(listings[i]) : i \in 1..Len(listings)}

\* ----------------------------------------------------- process_new_listings
\* (mutant) the test `listing_id not in seen_listings` is missing
NewListingsMutAll(listings, seen_listings) == listings

\* the listings the loop hands to send_discord_notification, in order
RECURSIVE NewListings(_, _)
NewListings(listings, seen_listings) ==
  IF listings = <<>> THEN <<>>
  ELSE LET rest == NewListings(Tail(listings), seen_listings)
       IN IF KeyOf(Head(listings)) \notin seen_listings
          THEN <<Head(listings)>> \o rest
          ELSE rest

\* (mutant) new_seen.add(listing_id) is missing
ProcessMutNoAdd(listings, seen_listings) ==
  [new_seen   |-> seen_listings,
   dispatched |-> NewListings(listings, seen_listings)]

\* (mutant) only the first new listing's key is added
ProcessMutAddFirst(listings, seen_listings) ==
  [new_seen   |-> LET new == NewListings(listings, seen_listings)
                  IN IF new = <<>> THEN seen_listings
                     ELSE seen_listings \cup {KeyOf(Head(new))},
   dispatched |-> NewListings(listings, seen_listings)]

process_new_listings(listings, seen_listings) ==
  [new_seen   |-> seen_listings \cup KeysOf(NewListings(listings, seen_listings)),
   dispatched |-> NewListings(listings, seen_listings)]

\* (mutant) new_seen.add(listing_id) comes before send_discord_notification
ProcessEventsMutAddFirst(listings, seen_listings) ==
  LET new == NewListings(listings, seen_listings)
  IN [i \in 1..(2 * Len(new)) |->
        IF i % 2 = 1 THEN [op |-> "add", key |-> KeyOf(new[(i + 1) \div 2])]
        ELSE [op |-> "dispatch", key |-> KeyOf(new[i \div 2])]]

\* what the loop of process_new_listings does, in order: for each new
\* listing send_discord_notification(listing), then new_seen.add(listing_id)
ProcessEvents(listings, seen_listings) ==
  LET new == NewListings(listings, seen_listings)
  IN [i \in 1..(2 * Len(new)) |->
        IF i % 2 = 1 THEN [op |-> "dispatch", key |-> KeyOf(new[(i + 1) \div 2])]
        ELSE [op |-> "add", key |-> KeyOf(new[i \div 2])]]

\* save_seen_listings(updated_seen), the last statement of check_marketplace
SaveEvent == [op |-> "save"]

\* --------------------------------------------------------- check_marketplace
NoLoad  == [status |-> "none", set |-> {}, warned |-> FALSE]

NoFetch == [status |-> "none", listings |-> <<>>]

\* the dispatched listings that reach requests.post, in order
RECURSIVE Posts(_, _, _, _)
Posts(listings, min_price, max_price, deal_threshold) ==
  IF listings = <<>> THEN <<>>
  ELSE LET rest == Posts(Tail(listings), min_price, max_price, deal_threshold)
       IN IF ReachesPost(Head(listings), min_price, max_price, deal_threshold)
          THEN <<Head(listings)>> \o rest
          ELSE rest

\* (mutant) the two early returns are missing
ReachesSaveMutAlways(fr) == TRUE

\* whether check_marketplace goes on to process and save: it returns early
\* on `not marketplace_data` and on `not listings`
ReachesSave(fr) == fr.status = "ok" /\ fr.listings # <<>>

ReadOutcomes(f) == IF f.kind = "missing" THEN {"ok"} ELSE {"ok", "ioerror"}

\* what requests.post / raise_for_status may do for n POSTs in a row
Deliveries(n) ==
  IF transport = "up" THEN {[i \in 1..n |-> TRUE]} ELSE [1..n -> BOOLEAN]

\* One call of check_marketplace from main's loop. An exception raised by
\* load_seen_listings leaves check_marketplace and main, which catches
\* KeyboardInterrupt only: the process ends ("crashed").
\* posted lists the identity keys of the listings whose notification reached
\* requests.post; delivered tells, POST by POST, whether the transport took
\* it. A transport error (RequestException from requests.post or from
\* raise_for_status) is caught in send_discord_notification and changes
\* nothing else.
check_marketplace ==
  /\ script = "marketplace"
  /\ pc = "check"
  /\ \E rd \in ReadOutcomes(file) :
       LET ld == load_seen_listings(file, rd)
       IN /\ fileBefore' = file
          /\ loaded' = ld
          /\ IF ld.status = "raised"
             THEN /\ pc' = "crashed"
                  /\ fetched' = NoFetch
                  /\ dispatched' = <<>> /\ posted' = <<>>
                  /\ delivered' = <<>> /\ events' = <<>>
                  /\ updated_seen' = {} /\ saveOutcome' = "none"
                  /\ saveAttempts' = 0
                  /\ file' = file
             ELSE \E outcome \in {"fail", "ok"},
                     page \in PagesOver(PricesRead(MIN_LISTING_PRICE,
                                 MAX_LISTING_PRICE, DEAL_THRESHOLD_PERCENT)) :
                  LET fr == fetch_marketplace_data(outcome, page, now)
                      pr == process_new_listings(fr.listings, ld.set)
                      ps == Posts(pr.dispatched, MIN_LISTING_PRICE,
                                  MAX_LISTING_PRICE, DEAL_THRESHOLD_PERCENT)
                  IN /\ outcome = "fail" => page = <<>>
                     /\ pc' = "sleep"
                     /\ fetched' = fr
                     /\ IF ReachesSave(fr)
                        THEN /\ dispatched' = pr.dispatched
                             /\ posted' = [i \in 1..Len(ps) |-> KeyOf(ps[i])]
                             /\ delivered' \in Deliveries(Len(ps))
                             /\ events' = ProcessEvents(fr.listings, ld.set)
                                            \o <<SaveEvent>>
                             /\ updated_seen' = pr.new_seen
                             /\ saveAttempts' = 1
                             /\ \E wr \in SaveOutcomes :
                                  /\ saveOutcome' = wr
                                  /\ file' = save_seen_listings(file, pr.new_seen,
                                                                now, wr)
                        ELSE /\ dispatched' = <<>> /\ posted' = <<>>
                             /\ delivered' = <<>> /\ events' = <<>>
                             /\ updated_seen' = {} /\ saveOutcome' = "none"
                             /\ saveAttempts' = 0
                             /\ file' = file
  /\ UNCHANGED <<script, now, settings, marketHist, stockVars, storeVars,
                 dealVars>>

\* time.sleep(POLL_INTERVAL_SECONDS) of the marketplace monitor's loop.
\* The cycle that just ended becomes "the cycle before": prevKeys and
\* prevSave keep its batch keys and save outcome, the other observations
\* of it are cleared.
MarketSleep ==
  /\ script = "marketplace"
  /\ pc = "sleep"
  /\ now < MaxTime
  /\ now' = now + 1
  /\ pc' = "check"
  /\ prevKeys' = KeysOf(fetched.listings)
  /\ prevSave' = saveOutcome
  /\ prevFailed' = {posted[i] : i \in {j \in 1..Len(posted) : ~delivered[j]}}
  /\ fileBefore' = Missing /\ loaded' = NoLoad /\ fetched' = NoFetch
  /\ dispatched' = <<>> /\ posted' = <<>> /\ updated_seen' = {}
  /\ delivered' = <<>> /\ events' = <<>>
  /\ saveOutcome' = "none" /\ saveAttempts' = 0
  /\ UNCHANGED <<script, file, settings, stockVars, storeVars, dealVars>>

\* time.time() reads the wall clock, which the system may set back; only the
\* reading at the next cycle matters, so the step is taken before a cycle
ClockSetBack ==
  /\ script = "marketplace"
  /\ pc = "check"
  /\ \E t \in 0..(now - 1) : now' = t
  /\ UNCHANGED <<script, pc, marketVars, stockVars, storeVars, dealVars>>

\* KeyboardInterrupt in main's loop (either script), between two cycles or
\* during time.sleep
Interrupt ==
  /\ script \in {"marketplace", "stock"}
  /\ pc \in {"check", "sleep"}
  /\ pc' = "stopped"
  /\ UNCHANGED <<script, now, marketVars, stockVars, storeVars, dealVars>>

\* KeyboardInterrupt raised while check_marketplace runs: nothing in the
\* cycle catches it (fetch_marketplace_data catches Exception, which
\* KeyboardInterrupt is not), so it leaves the cycle where it arrives and
\* main's handler ends the process. Two arrival points are kept:
\*   during requests.get of the fetch, before anything was dispatched;
\*   during json.dump of the save, after open(..., 'w') truncated the file.
\* An interrupt between two cycles, or after the write, is Interrupt.
InterruptedCycle ==
  /\ script = "marketplace"
  /\ pc = "check"
  /\ \E rd \in ReadOutcomes(file) :
       LET ld == load_seen_listings(file, rd)
       IN /\ ld.status = "ok"
          /\ fileBefore' = file
          /\ loaded' = ld
          /\ \/ /\ fetched' = [status |-> "interrupted", listings |-> <<>>]
                /\ dispatched' = <<>> /\ posted' = <<>>
                /\ delivered' = <<>> /\ events' = <<>>
                /\ updated_seen' = {} /\ saveOutcome' = "none"
                /\ saveAttempts' = 0
                /\ file' = file
             \/ \E page \in PagesOver(PricesRead(MIN_LISTING_PRICE,
                              MAX_LISTING_PRICE, DEAL_THRESHOLD_PERCENT)) :
                  LET fr == fetch_marketplace_data("ok", page, now)
                      pr == process_new_listings(fr.listings, ld.set)
                      ps == Posts(pr.dispatched, MIN_LISTING_PRICE,
                                  MAX_LISTING_PRICE, DEAL_THRESHOLD_PERCENT)
                  IN /\ ReachesSave(fr)
                     /\ fetched' = fr
                     /\ dispatched' = pr.dispatched
                     /\ posted' = [i \in 1..Len(ps) |-> KeyOf(ps[i])]
                     /\ delivered' = [i \in 1..Len(ps) |-> TRUE]
                     /\ events' = ProcessEvents(fr.listings, ld.set)
                                    \o <<SaveEvent>>
                     /\ updated_seen' = pr.new_seen
                     /\ saveAttempts' = 1
                     /\ saveOutcome' = "interrupt"
                     /\ file' = save_seen_listings(file, pr.new_seen, now,
                                                   "interrupt")
  /\ pc' = "stopped"
  /\ UNCHANGED <<script, now, settings, marketHist, stockVars, storeVars,
                 dealVars>>

\* ------------------------------------------------------ stock notifier steps
NoPoll == [status |-> "none", packs |-> EmptyTally]

\* one call of check_and_notify from main's loop
CheckAndNotify ==
  /\ script = "stock"
  /\ pc = "check"
  /\ \E outcome \in {"fail", "ok"}, tally \in Tallies :
       LET available_packs == fetch_available_packs_from_store(outcome, tally)
       IN /\ outcome = "fail" => tally = EmptyTally
          /\ \E order \in Perms(DOMAIN available_packs) :
               LET r == check_and_notify(previous_stock, available_packs, order)
               IN /\ previous_stock' = r.ledger
                  /\ stockNotes' = r.notes
          /\ stockBefore' = previous_stock
          /\ lastPoll' = [status |-> outcome, packs |-> available_packs]
  /\ pc' = "sleep"
  /\ UNCHANGED <<script, now, gone, steady, marketVars, storeVars, dealVars>>

\* time.sleep(POLL_INTERVAL_SECONDS) of the stock notifier's loop; the
\* observations of the cycle that just ended are cleared. `gone` keeps what
\* the next cycle needs of the history: a set that was in the ledger (or
\* already gone) and that a successful poll did not list is gone until a
\* successful poll lists it again. `steady` follows each set through the
\* polls that were applied (fetched, with at least one set): a set the poll
\* lists with at most 5 more than at the applied poll before continues its
\* run, any other listed set starts a run, an unlisted set has none.
StockSleep ==
  /\ script = "stock"
  /\ pc = "sleep"
  /\ pc' = "check"
  /\ stockBefore' = EmptyTally /\ lastPoll' = NoPoll /\ stockNotes' = <<>>
  /\ gone' = IF lastPoll.status = "ok"
             THEN (gone \cup DOMAIN stockBefore) \ DOMAIN lastPoll.packs
             ELSE gone
  /\ steady' = IF lastPoll.status # "ok" THEN steady
               ELSE [s \in DOMAIN lastPoll.packs |->
                       IF s \in DOMAIN steady
                            /\ lastPoll.packs[s] <= steady[s].last + 5
                       THEN [first |-> steady[s].first,
                             last  |-> lastPoll.packs[s]]
                       ELSE [first |-> lastPoll.packs[s],
                             last  |-> lastPoll.packs[s]]]
  /\ UNCHANGED <<script, now, previous_stock, marketVars, storeVars, dealVars>>

\* ------------------------------------------------------------------- Init
\* what the store file may hold when the monitor starts
InitFiles ==
  {Missing} \cup {Malformed(k) : k \in MalformedKinds}
            \cup {FileOf("doc", SetToList(S), 0) : S \in SUBSET (Cards \X {0})}

MarketIdle ==
  /\ fileBefore = Missing /\ loaded = NoLoad /\ fetched = NoFetch
  /\ dispatched = <<>> /\ posted = <<>> /\ updated_seen = {}
  /\ delivered = <<>> /\ events = <<>>
  /\ saveOutcome = "none" /\ saveAttempts = 0
  /\ prevKeys = {} /\ prevSave = "none" /\ prevFailed = {}

StockIdle ==
  /\ previous_stock = EmptyTally /\ stockBefore = EmptyTally
  /\ lastPoll = NoPoll /\ stockNotes = <<>> /\ gone = {}
  /\ steady = EmptyTally

StoreIdle ==
  /\ argSet = {} /\ argKey = ListingId("sv1-a", 0)
  /\ res1 = NoLoad /\ res2 = NoLoad /\ faulted = FALSE

DealIdle ==
  /\ argListed = 0 /\ argMarket = 0 /\ dealResult = [num |-> 0, den |-> 1]

\* The thresholds as the source sets them (lines 44, 47, 51): all 0.0
DefaultThresholds ==
  /\ MIN_LISTING_PRICE = 0 /\ MAX_LISTING_PRICE = 0
  /\ DEAL_THRESHOLD_PERCENT = 0

\* The webhook accepts every POST. A failed POST is caught and logged inside
\* send_discord_notification and reaches nothing else, so the claims about
\* the store, the loop and the filters are checked with the webhook up;
\* SpecDelivery runs the same loop with a webhook that may fail.
WebhookUp == transport = "up"

\* Either script, started by its main
Init ==
  /\ script \in {"marketplace", "stock"}
  /\ pc = "check"
  /\ now = 0
  /\ MarketIdle /\ StockIdle /\ StoreIdle /\ DealIdle
  /\ DefaultThresholds /\ WebhookUp
  /\ IF script = "marketplace" THEN file \in InitFiles ELSE file = Missing

Next ==
  \/ check_marketplace
  \/ MarketSleep
  \/ ClockSetBack
  \/ CheckAndNotify
  \/ StockSleep
  \/ Interrupt
  \/ InterruptedCycle

Spec == Init /\ [][Next]_vars

\* One call of check_marketplace, with the thresholds an operator may have
\* edited the constants to, from every store file and clock reading
InitCycle ==
  /\ script = "marketplace"
  /\ pc = "check"
  /\ now \in Times
  /\ MarketIdle /\ StockIdle /\ StoreIdle /\ DealIdle
  /\ file \in InitFiles
  /\ WebhookUp
  /\ MIN_LISTING_PRICE \in MinPriceChoices
  /\ MAX_LISTING_PRICE \in MaxPriceChoices
  /\ DEAL_THRESHOLD_PERCENT \in DealChoices

SpecCycle == InitCycle /\ [][check_marketplace]_vars

\* The marketplace monitor's loop with a webhook that may fail any POST,
\* from a first start (no store file yet)
InitDelivery ==
  /\ script = "marketplace"
  /\ pc = "check"
  /\ now = 0
  /\ MarketIdle /\ StockIdle /\ StoreIdle /\ DealIdle
  /\ DefaultThresholds
  /\ transport = "faulty"
  /\ file = Missing

\* the loop's sleep, while the clock reads less than MaxDeliveryTime
MarketSleepEarly == MarketSleep /\ now < MaxDeliveryTime

NextDelivery ==
  \/ check_marketplace
  \/ MarketSleepEarly
  \/ ClockSetBack

SpecDelivery == InitDelivery /\ [][NextDelivery]_vars

\* ======================================================================
\*  The store driven directly: load_seen_listings / save_seen_listings
\* ======================================================================
\* Two call sequences:
\*   round trip   r1 = load(); save(r1 | {k}); r2 = load()
\*   idempotence  save(S); r1 = load(); save(S); r2 = load()
\* pc is the call about to be made; "raised" when a call raised.

\* load_seen_listings() in either sequence
StoreLoad ==
  /\ script = "store"
  /\ pc \in {"rt_load", "rt_reload", "id_load1", "id_load2"}
  /\ \E rd \in ReadOutcomes(file) :
       LET r == load_seen_listings(file, rd)
       IN /\ faulted' = (faulted \/ rd = "ioerror")
          /\ IF pc \in {"rt_load", "id_load1"}
             THEN res1' = r /\ res2' = res2
             ELSE res2' = r /\ res1' = res1
          /\ pc' = IF r.status = "raised" THEN "raised"
                   ELSE CASE pc = "rt_load"   -> "rt_save"
                          [] pc = "rt_reload" -> "rt_done"
                          [] pc = "id_load1"  -> "id_save2"
                          [] pc = "id_load2"  -> "id_done"
  /\ UNCHANGED <<script, now, file, argSet, argKey, stockVars, dealVars,
                 settings, marketObs, marketHist>>

\* save_seen_listings(...) in either sequence; datetime.now() reads `now`
StoreSave ==
  /\ script = "store"
  /\ pc \in {"rt_save", "id_save1", "id_save2"}
  /\ \E wr \in SaveOutcomes :
       /\ faulted' = (faulted \/ wr # "ok")
       /\ file' = save_seen_listings(
                    file,
                    IF pc = "rt_save" THEN res1.set \cup {argKey} ELSE argSet,
                    now, wr)
  /\ pc' = CASE pc = "rt_save"  -> "rt_reload"
             [] pc = "id_save1" -> "id_load1"
             [] pc = "id_save2" -> "id_load2"
  /\ UNCHANGED <<script, now, argSet, argKey, res1, res2, stockVars, dealVars,
                 settings, marketObs, marketHist>>

\* time passes between two calls
StoreTick ==
  /\ script = "store"
  /\ pc \in {"rt_save", "id_save2"}
  /\ now < MaxTime
  /\ now' = now + 1
  /\ UNCHANGED <<script, pc, marketVars, stockVars, storeVars, dealVars>>

InitStore ==
  /\ script = "store"
  /\ now = 0
  /\ MarketIdle /\ StockIdle /\ DealIdle
  /\ DefaultThresholds /\ WebhookUp
  /\ file \in InitFiles
  /\ res1 = NoLoad /\ res2 = NoLoad /\ faulted = FALSE
  /\ \/ pc = "rt_load" /\ argKey \in Keys /\ argSet = {}
     \/ pc = "id_save1" /\ argSet \in SUBSET Keys /\ argKey = ListingId("sv1-a", 0)

NextStore ==
  \/ StoreLoad
  \/ StoreSave
  \/ StoreTick

SpecStore == InitStore /\ [][NextStore]_vars

\* ======================================================================
\*  calculate_deal_percentage called directly
\* ======================================================================
DealListed == {0, 50, 80, 100, 120, 150, 300, 360}

DealMarket == {0 - 100, 0, 50, 80, 100, 120, 360}

CalculateDeal ==
  /\ script = "deal"
  /\ pc = "call"
  /\ dealResult' = calculate_deal_percentage(argListed, argMarket)
  /\ pc' = "done"
  /\ UNCHANGED <<script, now, argListed, argMarket, marketVars, stockVars,
                 storeVars>>

InitDeal ==
  /\ script = "deal"
  /\ pc = "call"
  /\ now = 0
  /\ file = Missing
  /\ MarketIdle /\ StockIdle /\ StoreIdle
  /\ DefaultThresholds /\ WebhookUp
  /\ argListed \in DealListed
  /\ argMarket \in DealMarket
  /\ dealResult = [num |-> 0, den |-> 1]

SpecDeal == InitDeal /\ [][CalculateDeal]_vars

\* ======================================================================
\*  Properties
\* ======================================================================
CycleDone == script = "marketplace" /\ pc = "sleep"

CardsOf(keys) == {k[1] : k \in keys}

Count(seq, x) == Cardinality({i \in 1..Len(seq) : seq[i] = x})

BatchKeys == KeysOf(fetched.listings)

\* C1: when the same offer (same card_id) is in the page of two consecutive
\* check_marketplace cycles and the first cycle's save succeeded, the second
\* cycle sends no notification for that offer.
C1_SameOfferNotifiedOnce ==
  (CycleDone /\ prevSave = "ok") =>
    \A c \in CardsOf(prevKeys) \cap CardsOf(BatchKeys) :
      \A i \in 1..Len(posted) : posted[i][1] # c

C3_FreshListingNotifiedOnce ==
  CycleDone =>
    \A i \in 1..Len(fetched.listings) :
      LET l == fetched.listings[i]
          k == KeyOf(l)
      IN ( /\ k \notin loaded.set
           /\ Cardinality({j \in 1..Len(fetched.listings) :
                             KeyOf(fetched.listings[j]) = k}) = 1
           /\ ReachesPost(l, MIN_LISTING_PRICE, MAX_LISTING_PRICE,
                          DEAL_THRESHOLD_PERCENT) )
         => /\ Count(posted, k) = 1
            /\ saveAttempts = 1
            /\ k \in updated_seen
            /\ saveOutcome = "ok" => (file.kind = "doc" /\ k \in Range(file.list))

\* a cycle with a filter switched on, one fresh listing that passed it and
\* one that did not, saved
C3_Witness ==
  /\ CycleDone /\ saveOutcome = "ok"
  /\ MIN_LISTING_PRICE > 0
  /\ Len(fetched.listings) = 2 /\ Len(posted) = 1
  /\ posted[1] \notin loaded.set
  /\ posted[1] \in Range(file.list)

StockDone == script = "stock" /\ pc = "sleep"

NotesFor(set_name) == {i \in 1..Len(stockNotes) : stockNotes[i].set = set_name}

\* C4: for every set of the poll's tally, previous count 0 (or absent) and
\* current count > 0 gives a first-seen notification; previous count > 0 and
\* current count <= previous + 5 gives none.
C4_FirstSeenAndUnchanged ==
  StockDone =>
    \A s \in DOMAIN lastPoll.packs :
      LET previous_count == PreviousCount(stockBefore, s)
          count == lastPoll.packs[s]
      IN /\ (previous_count = 0 /\ count > 0) =>
              \E i \in NotesFor(s) : stockNotes[i].kind = "first-seen"
         /\ (previous_count > 0 /\ count <= previous_count + 5) =>
              NotesFor(s) = {}

\* one poll with a set seen for the first time and a set that grew by
\* exactly 5
C4_Witness ==
  /\ StockDone
  /\ \E s, u \in DOMAIN lastPoll.packs :
       /\ s \notin DOMAIN stockBefore
       /\ \E i \in NotesFor(s) : stockNotes[i].kind = "first-seen"
       /\ u \in DOMAIN stockBefore
       /\ lastPoll.packs[u] = stockBefore[u] + 5
       /\ NotesFor(u) = {}

\* C5: for a set whose previous count is > 0: exactly one restock
\* notification when the current count is > previous + 5, none when it is
\* <= previous + 5, and in both cases the ledger holds the current count.
C5_RestockThreshold ==
  StockDone =>
    \A s \in DOMAIN lastPoll.packs :
      LET previous_count == PreviousCount(stockBefore, s)
          count == lastPoll.packs[s]
      IN previous_count > 0 =>
           /\ count > previous_count + 5 =>
                /\ Cardinality(NotesFor(s)) = 1
                /\ \A i \in NotesFor(s) : stockNotes[i].kind = "restock"
           /\ count <= previous_count + 5 => NotesFor(s) = {}
           /\ s \in DOMAIN previous_stock /\ previous_stock[s] = count

\* one poll with a restocked set (1 -> 7) and a set that changed without a
\* notification
C5_Witness ==
  /\ StockDone
  /\ \E s, u \in DOMAIN lastPoll.packs :
       /\ s \in DOMAIN stockBefore /\ u \in DOMAIN stockBefore
       /\ lastPoll.packs[s] > stockBefore[s] + 5
       /\ Cardinality(NotesFor(s)) = 1
       /\ lastPoll.packs[u] # stockBefore[u]
       /\ NotesFor(u) = {}
       /\ previous_stock[u] = lastPoll.packs[u]

\* C6: when the fetch fails, the cycle produces no notification and leaves
\* the state as it was: check_marketplace does not write the store file,
\* check_and_notify leaves the ledger as it was.
C6_FetchFailureIsNoOp ==
  /\ (script = "marketplace" /\ fetched.status = "fail") =>
       /\ dispatched = <<>> /\ posted = <<>>
       /\ saveAttempts = 0
       /\ file = fileBefore
  /\ (script = "stock" /\ lastPoll.status = "fail") =>
       /\ stockNotes = <<>>
       /\ previous_stock = stockBefore

\* a failed fetch of the marketplace monitor over a store that holds keys
C6_Witness ==
  /\ script = "marketplace" /\ fetched.status = "fail"
  /\ file.kind = "doc" /\ file.list # <<>>
  /\ loaded.set # {}

\* a failed fetch of the stock notifier over a ledger that holds counts
C6_WitnessStock ==
  /\ script = "stock" /\ lastPoll.status = "fail"
  /\ previous_stock # EmptyTally

\* C7: load_seen_listings never raises: for a missing, unreadable, non-JSON
\* or unexpectedly shaped store file it returns the empty set, and the
\* following save overwrites the malformed content.
C7_LoadNeverRaises ==
  script = "marketplace" =>
    /\ loaded.status # "raised"
    /\ (loaded.status = "ok" /\ fileBefore.kind # "doc") => loaded.set = {}
    /\ (fileBefore.kind \in MalformedKinds /\ saveOutcome = "ok") =>
         file.kind = "doc"

\* C8: when save_seen_listings hits an I/O failure (at open, or while
\* writing after the open), the store file is what it was before the call,
\* and exactly one write attempt was made.
C8_FailedSaveLeavesFile ==
  (script = "marketplace" /\ saveOutcome \in {"openfail", "writefail"}) =>
    /\ file = fileBefore
    /\ saveAttempts = 1

\* C9: for every key k and every prior store state, after
\* save(load() | {k}) a following load() returns a set that contains k.
C9_RoundTrip ==
  (script = "store" /\ ~faulted) =>
    /\ res1.status # "raised"
    /\ pc = "rt_done" => argKey \in res2.set

\* C10: for every set S, load() after save(S); save(S) returns the same set
\* as load() after one save(S), namely S.
C10_SaveIdempotent ==
  (script = "store" /\ pc = "id_done" /\ ~faulted) =>
    /\ res1.set = argSet
    /\ res2.set = argSet
    /\ res2.status = "ok"

\* two saves of a two-key set, the second at a later time: the stored
\* last_updated differs from the first save's, the readable set does not
C10_Witness ==
  /\ script = "store" /\ pc = "id_done" /\ ~faulted
  /\ Cardinality(argSet) = 2
  /\ file.updated > 0
  /\ res1.set = res2.set

\* what a later load can read back from the store file
PersistedSet(f) == IF f.kind = "doc" THEN Range(f.list) ELSE {}

\* C11: the persisted SeenSet only grows: every key in the store file stays
\* in it through every later step of the monitor, also through cycles in
\* which fetch, load or save fail.
C11_SeenSetMonotone ==
  [][script = "marketplace" => PersistedSet(file) \subseteq PersistedSet(file')]_vars

\* C12: the loop has no fatal condition other than an external interrupt:
\* whatever fails in a cycle, the driver goes back to sleeping and the
\* process does not end.
C12_NoFatalCondition ==
  script \in {"marketplace", "stock"} => pc \in {"check", "sleep", "stopped"}

\* C13: a KeyboardInterrupt that arrives while a cycle runs ends the
\* process with the store file whole: it holds the complete content it had
\* when the cycle started or the complete content the cycle was saving.
C13_InterruptLeavesStoreWhole ==
  (script = "marketplace" /\ pc = "stopped"
     /\ (fetched.status = "interrupted" \/ saveOutcome = "interrupt")) =>
    \/ file = fileBefore
    \/ file = FileOf("doc", SetToList(updated_seen), now)

\* C14: calculate_deal_percentage(listed, reference) is
\* (listed - reference) / reference * 100 when reference > 0 and 0
\* otherwise; (80, 100) gives -20, (120, 100) gives 20, (X, 0) gives 0.
C14_DealPercentage ==
  (script = "deal" /\ pc = "done") =>
    /\ dealResult.den > 0
    /\ argMarket > 0 =>
         dealResult.num * argMarket
           = (argListed - argMarket) * 100 * dealResult.den
    /\ argMarket <= 0 => dealResult.num = 0
    /\ (argListed = 80 /\ argMarket = 100) =>
         dealResult.num = (0 - 20) * dealResult.den
    /\ (argListed = 120 /\ argMarket = 100) =>
         dealResult.num = 20 * dealResult.den

C14_Witness ==
  /\ script = "deal" /\ pc = "done"
  /\ argListed = 80 /\ argMarket = 100
  /\ dealResult.num = (0 - 20) * dealResult.den

\* C15: after every check_and_notify cycle whose fetch succeeded, also one
\* that found no set in stock, the ledger equals that poll's tally.
C15_LedgerIsLastSuccessfulPoll ==
  (StockDone /\ lastPoll.status = "ok") => previous_stock = lastPoll.packs

\* C16: a set that was in the ledger, was missing from a successful poll and
\* is listed again by this poll gets a first-seen notification, whatever
\* its earlier count and whatever else the poll it was missing from listed.
C16_ReappearanceIsFirstSeen ==
  (StockDone /\ lastPoll.status = "ok") =>
    \A s \in gone \cap DOMAIN lastPoll.packs :
      \E i \in NotesFor(s) : stockNotes[i].kind = "first-seen"

\* the cycle went through process_new_listings and save_seen_listings
CycleSaved == CycleDone /\ saveAttempts = 1

\* C17 (as claimed): the keys a cycle adds to the seen set are exactly the
\* keys of the listings that were new and passed the three filters; a new
\* listing that a filter suppressed does not have its key added.
C17_AddedKeysAreNotifiedKeys ==
  CycleSaved => updated_seen \ loaded.set = Range(posted)

\* C17 (amended): the keys a cycle adds to the seen set are exactly the keys
\* of the batch's listings that were not in the loaded set, whether or not
\* a filter suppressed their notification; nothing is removed.
C17_AddedKeysAreNewKeys ==
  CycleSaved =>
    /\ loaded.set \subseteq updated_seen
    /\ updated_seen \ loaded.set = BatchKeys \ loaded.set
    /\ Range(posted) \subseteq BatchKeys \ loaded.set

\* a cycle with two new listings, one of them suppressed by a filter, and
\* both keys added
C17_Witness ==
  /\ CycleSaved
  /\ Cardinality(updated_seen \ loaded.set) = 2
  /\ Len(posted) = 1
  /\ \E k \in updated_seen \ loaded.set : Count(posted, k) = 0

\* the three conditions of C18 on one listing, with deal_percent
\* = (listed - market) / market * 100 when market > 0 and 0 otherwise
PassesFilters(l) ==
  /\ MIN_LISTING_PRICE = 0 \/ l.listed_price >= MIN_LISTING_PRICE
  /\ MAX_LISTING_PRICE = 0 \/ l.listed_price <= MAX_LISTING_PRICE
  /\ \/ DEAL_THRESHOLD_PERCENT = 0
     \/ IF l.market_price > 0
        THEN (l.listed_price - l.market_price) * 100
               <= (0 - DEAL_THRESHOLD_PERCENT) * l.market_price
        ELSE 0 <= 0 - DEAL_THRESHOLD_PERCENT

\* positions of the batch whose listing has key k
BatchAt(k) == {i \in 1..Len(fetched.listings) : KeyOf(fetched.listings[i]) = k}

\* C18: a new listing has a notification sent to the transport if and only
\* if (MIN = 0 or price >= MIN) and (MAX = 0 or price <= MAX) and (DEAL = 0
\* or deal_percent <= -DEAL): for every key not in the loaded set, the POSTs
\* for it are as many as the batch's listings with that key that pass.
C18_NotifiedIffPassesFilters ==
  CycleSaved =>
    /\ \A k \in BatchKeys \ loaded.set :
         Count(posted, k)
           = Cardinality({i \in BatchAt(k) : PassesFilters(fetched.listings[i])})
    /\ \A k \in loaded.set : Count(posted, k) = 0

\* one cycle in which every filter is enabled, a new listing passes all
\* three and another is suppressed
C18_Witness ==
  /\ CycleSaved
  /\ MIN_LISTING_PRICE > 0 /\ MAX_LISTING_PRICE > 0
  /\ DEAL_THRESHOLD_PERCENT > 0
  /\ Len(posted) = 1
  /\ Len(dispatched) = 2

\* positions of the cycle's events with operation `op`
EventsOf(op) == {i \in 1..Len(events) : events[i].op = op}

FailedKeys == {posted[i] : i \in {j \in 1..Len(posted) : ~delivered[j]}}

\* positions of the batch whose listing was not in the loaded set
NewAt == {i \in 1..Len(fetched.listings) :
            KeyOf(fetched.listings[i]) \notin loaded.set}

C20_WitnessBatch ==
  /\ CycleDone
  /\ Len(posted) = 2
  /\ ~delivered[1] /\ delivered[2]
  /\ posted[1] # posted[2]
  /\ saveOutcome = "ok"
  /\ {posted[1], posted[2]} \subseteq PersistedSet(file)

\* C21: within one call of process_new_listings, a key that is not in the
\* loaded set and that two or more listings of the batch carry gets at most
\* one notification.
C21_DuplicateKeyNotifiedOnce ==
  CycleSaved =>
    \A k \in BatchKeys \ loaded.set :
      Cardinality(BatchAt(k)) >= 2 => Count(posted, k) <= 1

\* C22: the restock threshold is measured against the applied poll just
\* before: a set that has stayed in stock and that this poll lists with at
\* most 5 more than that poll gets no notification, however far its count
\* is above the count its run started with.
C22_SlowGrowthNeverNotified ==
  StockDone =>
    \A s \in DOMAIN steady \cap DOMAIN lastPoll.packs :
      lastPoll.packs[s] <= steady[s].last + 5 => NotesFor(s) = {}

\* a set that grew by at most 5 per poll to more than 5 above its first
\* count, without a notification at this poll
C22_Witness ==
  /\ StockDone
  /\ \E s \in DOMAIN steady \cap DOMAIN lastPoll.packs :
       /\ lastPoll.packs[s] <= steady[s].last + 5
       /\ lastPoll.packs[s] > steady[s].first + 5
       /\ steady[s].last > steady[s].first
       /\ NotesFor(s) = {}

====
